---- MODULE Spec2Model ----
(***************************************************************************)
(* Model of the restaurant order book of src/main.py: the Menu, the Order  *)
(* and the Restaurant classes, driven through their public methods.        *)
(*                                                                         *)
(* A Python dict is a sequence of [key, value] entries in insertion order, *)
(* which is the order `save_orders` writes the records in.  A file is a    *)
(* record [kind, data]: absent, not JSON, or a JSON array of objects.      *)
(***************************************************************************)
EXTENDS Integers, Sequences, FiniteSets, TLC

\* ------------------------------------------------------------------ bounds

\* Number of public calls made on one Restaurant in a run.
MaxOps == 6

\* Longest menu whose categories are listed.
MaxMenuLen == 4

\* ------------------------------------------------------- program constants

\* available_tables = {1, 2, 3, 4, 5}
NumTables == 5

Universe == 1..NumTables

\* ------------------------------------------------------------------ inputs

\* A table number no Restaurant is constructed with.
OutTable == NumTables + 1

\* Table numbers the calls are made with.
TableArgs == {1, 2, OutTable}

CustomerNames == {"Alice", "Bob"}

\* "Bread" is on no menu below.
ItemNames == {"Tea", "Soup", "Bread"}

\* ----------------------------------------------------------------- MenuItem

MenuItem(name, price, category) ==
    [name |-> name, price |-> price, category |-> category]

Tea == MenuItem("Tea", 2, "Drinks")

Soup == MenuItem("Soup", 5, "Starters")

HotTea == MenuItem("Tea", 3, "Hot")

\* -------------------------------------------------------------------- dict

EmptyDict == << >>

Keys(d) == {d[i].key : i \in DOMAIN d}

Has(d, k) == k \in Keys(d)

Index(d, k) == CHOOSE i \in DOMAIN d : d[i].key = k

Get(d, k) == d[Index(d, k)].value

\* d[k] = v: a present key keeps its place, a new key goes last.
Put(d, k, v) ==
    IF Has(d, k)
    THEN [d EXCEPT ![Index(d, k)] = [key |-> k, value |-> v]]
    ELSE Append(d, [key |-> k, value |-> v])

\* del d[k]
Del(d, k) == SelectSeq(d, LAMBDA e : e.key # k)

\* The mapping a dict stands for, without the insertion order.
AsMap(d) == [k \in Keys(d) |-> Get(d, k)]

\* ------------------------------------------------------------------- files

Missing == [kind |-> "missing", data |-> << >>]

Garbage == [kind |-> "garbage", data |-> << >>]

Json(data) == [kind |-> "json", data |-> data]

\* One object of the orders file.
OrderRecord(t, n, items) ==
    [table_number |-> t, customer_name |-> n, items |-> items]

\* The menu file of the runs.
MenuFile == Json(<<Tea, Soup, HotTea>>)

MenuSources == {Missing, Garbage, MenuFile}

\* Menu files of up to MaxMenuLen dishes in three categories, in every order.
Dishes == {MenuItem("Dish", 1, category) : category \in {"Soup", "Main", "Dessert"}}

CatalogFiles == {Json(items) : items \in UNION {[1..n -> Dishes] : n \in 0..MaxMenuLen}}

\* Orders files that no save_orders of the run wrote.
OneOrderFile == Json(<<OrderRecord(1, "Alice", <<Soup>>)>>)

OutTableFile == Json(<<OrderRecord(OutTable, "Bob", << >>)>>)

TwiceFile ==
    Json(<<OrderRecord(2, "Alice", << >>), OrderRecord(2, "Bob", <<HotTea>>)>>)

NoItemsFile ==
    Json(<<OrderRecord(2, "Bob", <<Tea>>), [table_number |-> 1, customer_name |-> "Alice"]>>)

ForeignSources ==
    {Missing, Garbage, OneOrderFile, OutTableFile, TwiceFile, NoItemsFile}

\* -------------------------------------------------------------------- Menu

\* Menu.load_menu: the items of a JSON menu file in file order; a missing or
\* unreadable file leaves the items as they were.
load_menu(items, src) ==
    IF src.kind = "json"
    THEN [k \in DOMAIN src.data |->
            MenuItem(src.data[k].name, src.data[k].price, src.data[k].category)]
    ELSE items

load_menu_signal(src) ==
    CASE src.kind = "json" -> "menu loaded"
      [] src.kind = "missing" -> "menu not found"
      [] OTHER -> "menu read error"

\* A lookup that keeps the last item of that name instead of the first.
get_item_by_name_last(items, name) ==
    LET hits == {k \in DOMAIN items : items[k].name = name}
    IN  IF hits = {}
        THEN << >>
        ELSE <<items[CHOOSE k \in hits : \A j \in hits : k >= j]>>

\* Menu.get_item_by_name: << the first item of that name >>, or << >> for None.
get_item_by_name(items, name) ==
    LET hits == {k \in DOMAIN items : items[k].name = name}
    IN  IF hits = {}
        THEN << >>
        ELSE <<items[CHOOSE k \in hits : \A j \in hits : k <= j]>>

\* Menu.get_items_by_category: the items of a category, in menu order.
get_items_by_category(items, category) ==
    SelectSeq(items, LAMBDA item : item.category = category)

\* The loop of get_categories over the items not yet visited.
RECURSIVE categories_from(_, _, _)
categories_from(items, categories, seen) ==
    IF items = << >>
    THEN categories
    ELSE IF Head(items).category \notin seen
    THEN categories_from(Tail(items), Append(categories, Head(items).category),
                         seen \cup {Head(items).category})
    ELSE categories_from(Tail(items), categories, seen)

\* A listing that appends the category of every item, seen or not.
get_categories_repeating(items) == [k \in DOMAIN items |-> items[k].category]

\* Menu.get_categories
get_categories(items) == categories_from(items, << >>, {})

\* ------------------------------------------------------------------- Order

Order(table_number, customer_name) ==
    [table_number |-> table_number, customer_name |-> customer_name, items |-> << >>]

add_item(order, item) == [order EXCEPT !.items = Append(@, item)]

\* A remove_item that takes out the first line of that name only.
remove_item_first(order, item_name) ==
    LET hits == {k \in DOMAIN order.items : order.items[k].name = item_name}
        first == CHOOSE k \in hits : \A j \in hits : k <= j
    IN  IF hits = {}
        THEN order
        ELSE [order EXCEPT !.items =
                 [k \in 1..(Len(@) - 1) |-> IF k < first THEN @[k] ELSE @[k + 1]]]

remove_item(order, item_name) ==
    [order EXCEPT !.items = SelectSeq(@, LAMBDA item : item.name # item_name)]

clear_order(order) == [order EXCEPT !.items = << >>]

\* sum(...) over the prices of a sequence of items: 0, then each price added
\* from the left.
RECURSIVE SumPrices(_)
SumPrices(items) ==
    IF items = << >>
    THEN 0
    ELSE SumPrices(SubSeq(items, 1, Len(items) - 1)) + items[Len(items)].price

\* A total that counts a dish once however often it was added.
total_price_once_per_dish(order) ==
    SumPrices(SelectSeq([k \in DOMAIN order.items |->
                            [name |-> order.items[k].name,
                             price |-> order.items[k].price,
                             category |-> order.items[k].category,
                             again |-> \E j \in 1..(k - 1) : order.items[j] = order.items[k]]],
                        LAMBDA item : ~item.again))

total_price(order) == SumPrices(order.items)

to_dict(order) ==
    [table_number |-> order.table_number,
     customer_name |-> order.customer_name,
     items |-> [k \in DOMAIN order.items |->
                  [name |-> order.items[k].name,
                   price |-> order.items[k].price,
                   category |-> order.items[k].category]]]

\* -------------------------------------------------------------- Restaurant

\* What a call leaves behind: the two collections and what it reported.
Outcome(orders, available_tables, signal) ==
    [orders |-> orders, available_tables |-> available_tables, signal |-> signal]

\* A create_order that tests the table number against the fixed table set and
\* never looks at the orders: it creates over an order that is there.
create_order_unguarded(orders, available_tables, table_number, customer_name) ==
    IF table_number \notin {1, 2, 3, 4, 5}
    THEN Outcome(orders, available_tables, "no such table")
    ELSE Outcome(Put(orders, table_number, Order(table_number, customer_name)),
                 available_tables \ {table_number},
                 "created")

\* A create_order that leaves the table among the available ones.
create_order_keeps_available(orders, available_tables, table_number, customer_name) ==
    IF table_number \notin available_tables
    THEN Outcome(orders, available_tables, "no such table")
    ELSE IF Has(orders, table_number)
    THEN Outcome(orders, available_tables, "table occupied")
    ELSE Outcome(Put(orders, table_number, Order(table_number, customer_name)),
                 available_tables,
                 "created")

\* A create_order that numbers the Order from 0 while keying it by the table.
create_order_zero_based(orders, available_tables, table_number, customer_name) ==
    IF table_number \notin available_tables
    THEN Outcome(orders, available_tables, "no such table")
    ELSE IF Has(orders, table_number)
    THEN Outcome(orders, available_tables, "table occupied")
    ELSE Outcome(Put(orders, table_number, Order(table_number - 1, customer_name)),
                 available_tables \ {table_number},
                 "created")

\* A create_order whose new Order shares its list of lines with the order
\* stored last, as a mutable default argument would make it.
create_order_shared_lines(orders, available_tables, table_number, customer_name) ==
    IF table_number \notin available_tables
    THEN Outcome(orders, available_tables, "no such table")
    ELSE IF Has(orders, table_number)
    THEN Outcome(orders, available_tables, "table occupied")
    ELSE Outcome(Put(orders, table_number,
                     [Order(table_number, customer_name) EXCEPT
                         !.items = IF orders = << >>
                                   THEN << >>
                                   ELSE orders[Len(orders)].value.items]),
                 available_tables \ {table_number},
                 "created")

create_order(orders, available_tables, table_number, customer_name) ==
    IF table_number \notin available_tables
    THEN Outcome(orders, available_tables, "no such table")
    ELSE IF Has(orders, table_number)
    THEN Outcome(orders, available_tables, "table occupied")
    ELSE Outcome(Put(orders, table_number, Order(table_number, customer_name)),
                 available_tables \ {table_number},
                 "created")

add_to_order(menu, orders, available_tables, table_number, item_name) ==
    IF ~Has(orders, table_number)
    THEN Outcome(orders, available_tables, "no such order")
    ELSE LET item == get_item_by_name(menu, item_name)
         IN  IF item # << >>
             THEN Outcome(Put(orders, table_number,
                              add_item(Get(orders, table_number), item[1])),
                          available_tables,
                          "added")
             ELSE Outcome(orders, available_tables, "item not found")

remove_from_order(orders, available_tables, table_number, item_name) ==
    IF ~Has(orders, table_number)
    THEN Outcome(orders, available_tables, "no such order")
    ELSE Outcome(Put(orders, table_number,
                     remove_item(Get(orders, table_number), item_name)),
                 available_tables,
                 "removed")

\* A cancel_order that deletes the order and forgets to free the table.
cancel_order_keeps_table(orders, available_tables, table_number) ==
    IF ~Has(orders, table_number)
    THEN Outcome(orders, available_tables, "no such order")
    ELSE Outcome(Del(orders, table_number), available_tables, "cancelled")

\* A cancel_order that frees the table whether or not it had an order.
cancel_order_always_frees(orders, available_tables, table_number) ==
    IF ~Has(orders, table_number)
    THEN Outcome(orders, available_tables \cup {table_number}, "no such order")
    ELSE Outcome(Del(orders, table_number),
                 available_tables \cup {table_number},
                 "cancelled")

cancel_order(orders, available_tables, table_number) ==
    IF ~Has(orders, table_number)
    THEN Outcome(orders, available_tables, "no such order")
    ELSE Outcome(Del(Put(orders, table_number, clear_order(Get(orders, table_number))),
                     table_number),
                 available_tables \cup {table_number},
                 "cancelled")

\* save_orders: the records of orders.values(), in dict order, as a JSON array.
save_orders(orders) == Json([k \in DOMAIN orders |-> to_dict(orders[k].value)])

\* The keys load_orders reads from one object before it stores the order.
HasOrderKeys(order_data) ==
    /\ {"table_number", "customer_name", "items"} \subseteq DOMAIN order_data
    /\ \A k \in DOMAIN order_data.items :
          {"name", "price", "category"} \subseteq DOMAIN order_data.items[k]

\* The Order load_orders builds from one object of the file.
order_from(order_data) ==
    [Order(order_data.table_number, order_data.customer_name) EXCEPT
        !.items = [k \in DOMAIN order_data.items |->
                     MenuItem(order_data.items[k].name,
                              order_data.items[k].price,
                              order_data.items[k].category)]]

\* A store that leaves the table among the available ones.
store_order_keeps_available(orders, available_tables, order_data) ==
    Outcome(Put(orders, order_data.table_number, order_from(order_data)),
            available_tables,
            "loaded")

\* One round of the loop of load_orders: the order is stored under the table
\* number of the file and that number is discarded from the available tables.
store_order(orders, available_tables, order_data) ==
    Outcome(Put(orders, order_data.table_number, order_from(order_data)),
            available_tables \ {order_data.table_number},
            "loaded")

\* The loop of load_orders over the objects of the file: an object with a key
\* missing raises KeyError, which load_orders does not catch, after the objects
\* before it were stored.
RECURSIVE load_records(_, _, _)
load_records(orders, available_tables, orders_data) ==
    IF orders_data = << >>
    THEN Outcome(orders, available_tables, "loaded")
    ELSE LET order_data == Head(orders_data)
         IN  IF ~HasOrderKeys(order_data)
             THEN Outcome(orders, available_tables, "KeyError")
             ELSE LET stored == store_order(orders, available_tables, order_data)
                  IN  load_records(stored.orders, stored.available_tables,
                                   Tail(orders_data))

\* A load_orders that starts from an empty dict instead of the current orders.
load_orders_from_empty(orders, available_tables, src) ==
    CASE src.kind = "missing" -> Outcome(orders, available_tables, "file not found")
      [] src.kind = "garbage" -> Outcome(orders, available_tables, "read error")
      [] OTHER -> load_records(EmptyDict, available_tables, src.data)

load_orders(orders, available_tables, src) ==
    CASE src.kind = "missing" -> Outcome(orders, available_tables, "file not found")
      [] src.kind = "garbage" -> Outcome(orders, available_tables, "read error")
      [] OTHER -> load_records(orders, available_tables, src.data)

\* ------------------------------------------------------------------ main()

\* What is typed for a table number: digits that int() parses, or not.
TableInputs ==
    {[parses |-> TRUE, value |-> t] : t \in TableArgs} \cup {[parses |-> FALSE, value |-> 0]}

\* What a command of main() leaves behind: the book, the file, the message and
\* where main() goes on ("prompt", "wizard", "exited", or "aborted" by an
\* exception nothing catches).
MainOutcome(orders, available_tables, file, signal, pc) ==
    [orders |-> orders, available_tables |-> available_tables, file |-> file,
     signal |-> signal, pc |-> pc]

\* Restaurant.show_category_menu: << the category chosen >>, or << >> for None
\* (no categories, "0", or a choice that names none).
show_category_menu(menu, choice) ==
    LET categories == get_categories(menu)
    IN  IF categories = << >> \/ choice \notin DOMAIN categories
        THEN << >>
        ELSE <<categories[choice]>>

\* order_creation_wizard up to its loop: the table number is parsed and
\* checked, and the order created.
wizard_begin(orders, available_tables, file, input, customer_name) ==
    IF ~input.parses
    THEN MainOutcome(orders, available_tables, file, "not a number", "prompt")
    ELSE IF input.value \notin available_tables
    THEN MainOutcome(orders, available_tables, file,
                     IF Has(orders, input.value) THEN "table occupied" ELSE "no such table",
                     "prompt")
    ELSE LET out == create_order(orders, available_tables, input.value, customer_name)
         IN  MainOutcome(out.orders, out.available_tables, file, out.signal,
                         IF out.signal = "created" THEN "wizard" ELSE "prompt")

\* A wizard that leaves its loop without saving.
wizard_round_unsaved(menu, orders, available_tables, file, table_number, choice, dish) ==
    LET category == show_category_menu(menu, choice)
    IN  IF category = << >>
        THEN MainOutcome(orders, available_tables, file, "saved", "prompt")
        ELSE LET items == get_items_by_category(menu, category[1])
             IN  IF dish \in DOMAIN items
                 THEN LET out == add_to_order(menu, orders, available_tables,
                                              table_number, items[dish].name)
                      IN  MainOutcome(out.orders, out.available_tables, file,
                                      out.signal, "wizard")
                 ELSE MainOutcome(orders, available_tables, file, "skipped", "wizard")

\* One round of the loop of order_creation_wizard: with no category chosen the
\* loop ends and the orders are saved; otherwise the dish chosen is added by
\* its name, or the category skipped.
wizard_round(menu, orders, available_tables, file, table_number, choice, dish) ==
    LET category == show_category_menu(menu, choice)
    IN  IF category = << >>
        THEN MainOutcome(orders, available_tables, save_orders(orders), "saved", "prompt")
        ELSE LET items == get_items_by_category(menu, category[1])
             IN  IF dish \in DOMAIN items
                 THEN LET out == add_to_order(menu, orders, available_tables,
                                              table_number, items[dish].name)
                      IN  MainOutcome(out.orders, out.available_tables, file,
                                      out.signal, "wizard")
                 ELSE MainOutcome(orders, available_tables, file, "skipped", "wizard")

\* Command 3: int() of the input, then show_order.
show_order_command(orders, available_tables, file, input) ==
    IF ~input.parses
    THEN MainOutcome(orders, available_tables, file, "ValueError", "aborted")
    ELSE MainOutcome(orders, available_tables, file,
                     IF Has(orders, input.value) THEN "order shown" ELSE "no such order",
                     "prompt")

\* A command 4 that cancels and does not save.
cancel_command_unsaved(orders, available_tables, file, input) ==
    IF ~input.parses
    THEN MainOutcome(orders, available_tables, file, "ValueError", "aborted")
    ELSE LET out == cancel_order(orders, available_tables, input.value)
         IN  MainOutcome(out.orders, out.available_tables, file, out.signal, "prompt")

\* Command 4: int() of the input, then cancel_order and save_orders.
cancel_command(orders, available_tables, file, input) ==
    IF ~input.parses
    THEN MainOutcome(orders, available_tables, file, "ValueError", "aborted")
    ELSE LET out == cancel_order(orders, available_tables, input.value)
         IN  MainOutcome(out.orders, out.available_tables, save_orders(out.orders),
                         out.signal, "prompt")

\* Command 6: save_orders, then the loop is left.
exit_command(orders, available_tables, file) ==
    MainOutcome(orders, available_tables, save_orders(orders), "saved", "exited")

\* ------------------------------------------------------------------- state

VARIABLES
    menu,               \* Restaurant.menu.items
    orders,             \* Restaurant.orders
    available_tables,   \* Restaurant.available_tables
    file,               \* orders.json
    signal,             \* what the last call reported
    call,               \* the last call: [op, table, arg, src]
    undo,               \* the book before the last successful create_order
    dropped,            \* lines the last call took out of an order
    cancelled,          \* <<table, customer>> of the cancelled orders that had lines
    categories,         \* what the last get_categories returned
    main,               \* main(): [pc, table_number, checkpointed]
    nops                \* calls made so far

vars == <<menu, orders, available_tables, file, signal, call, undo, dropped,
          cancelled, categories, main, nops>>

\* A call: the method, its table number, its name argument and the file it reads.
Call(op, table, arg, src) == [op |-> op, table |-> table, arg |-> arg, src |-> src]

NoCall == Call("none", 0, "", Missing)

NoUndo == [stage |-> "none", table |-> 0, orders |-> << >>, available_tables |-> {}]

\* The book before a create_order that succeeded is kept for the one call that
\* follows it: "created" right after the create, "cancelled" when that call is
\* cancel_order on the same table.
NextUndo(op, table, out) ==
    IF op = "create_order" /\ out.signal = "created"
    THEN [stage |-> "created", table |-> table,
          orders |-> orders, available_tables |-> available_tables]
    ELSE IF op = "cancel_order" /\ undo.stage = "created" /\ undo.table = table
    THEN [undo EXCEPT !.stage = "cancelled"]
    ELSE NoUndo

\* The number of lines a remove_from_order takes out of the table's order.
NextDropped(op, table, out) ==
    IF op = "remove_from_order" /\ Has(orders, table)
    THEN Len(Get(orders, table).items) - Len(Get(out.orders, table).items)
    ELSE 0

\* A cancel_order of an order with lines is remembered by table and customer.
NextCancelled(op, table, out) ==
    IF op = "cancel_order" /\ out.signal = "cancelled"
          /\ Get(orders, table).items # << >>
    THEN cancelled \cup {<<table, Get(orders, table).customer_name>>}
    ELSE cancelled

\* Where main() is: pc is "none" while the methods are called directly.
Main(pc, table_number, checkpointed) ==
    [pc |-> pc, table_number |-> table_number, checkpointed |-> checkpointed]

\* Restaurant.__init__, before any file is read.
Init ==
    /\ menu = << >>
    /\ orders = EmptyDict
    /\ available_tables = {1, 2, 3, 4, 5}
    /\ file = Missing
    /\ signal = "none"
    /\ call = NoCall
    /\ undo = NoUndo
    /\ dropped = 0
    /\ cancelled = {}
    /\ categories = << >>
    /\ main = Main("none", 0, FALSE)
    /\ nops = 0

\* A call is made while the run has calls left and no exception has ended it.
Running == nops < MaxOps /\ signal # "KeyError"

\* The part every call on the book shares.
Apply(op, table, arg, src, out) ==
    /\ Running
    /\ orders' = out.orders
    /\ available_tables' = out.available_tables
    /\ signal' = out.signal
    /\ call' = Call(op, table, arg, src)
    /\ undo' = NextUndo(op, table, out)
    /\ dropped' = NextDropped(op, table, out)
    /\ cancelled' = NextCancelled(op, table, out)
    /\ nops' = nops + 1
    /\ UNCHANGED <<categories, main>>

LoadMenu(src) ==
    /\ Apply("load_menu", 0, "", src, Outcome(orders, available_tables, load_menu_signal(src)))
    /\ menu' = load_menu(menu, src)
    /\ UNCHANGED file

CreateOrder(t, n) ==
    /\ Apply("create_order", t, n, Missing, create_order(orders, available_tables, t, n))
    /\ UNCHANGED <<menu, file>>

AddToOrder(t, i) ==
    /\ Apply("add_to_order", t, i, Missing, add_to_order(menu, orders, available_tables, t, i))
    /\ UNCHANGED <<menu, file>>

RemoveFromOrder(t, i) ==
    /\ Apply("remove_from_order", t, i, Missing, remove_from_order(orders, available_tables, t, i))
    /\ UNCHANGED <<menu, file>>

CancelOrder(t) ==
    /\ Apply("cancel_order", t, "", Missing, cancel_order(orders, available_tables, t))
    /\ UNCHANGED <<menu, file>>

SaveOrders ==
    /\ Apply("save_orders", 0, "", Missing, Outcome(orders, available_tables, "saved"))
    /\ file' = save_orders(orders)
    /\ UNCHANGED menu

\* load_orders, of the file save_orders wrote or of one written elsewhere.
LoadOrders(src) ==
    /\ Apply("load_orders", 0, "", src, load_orders(orders, available_tables, src))
    /\ UNCHANGED <<menu, file>>

Next ==
    \/ \E src \in MenuSources : LoadMenu(src)
    \/ \E t \in TableArgs, n \in CustomerNames : CreateOrder(t, n)
    \/ \E t \in TableArgs, i \in ItemNames : AddToOrder(t, i)
    \/ \E t \in TableArgs, i \in ItemNames : RemoveFromOrder(t, i)
    \/ \E t \in TableArgs : CancelOrder(t)
    \/ SaveOrders
    \/ \E src \in {file} \cup ForeignSources : LoadOrders(src)

Spec == Init /\ [][Next]_vars

\* ------------------------------------------------------- the menu alone

\* load_menu of one of the menu files of up to MaxMenuLen dishes.
LoadCatalog(src) ==
    /\ Apply("load_menu", 0, "", src, Outcome(orders, available_tables, load_menu_signal(src)))
    /\ menu' = load_menu(menu, src)
    /\ UNCHANGED file

\* Menu.get_categories on the menu as loaded.
GetCategories ==
    /\ Running
    /\ categories' = get_categories(menu)
    /\ signal' = "categories"
    /\ call' = Call("get_categories", 0, "", Missing)
    /\ nops' = nops + 1
    /\ UNCHANGED <<menu, orders, available_tables, file, undo, dropped, cancelled, main>>

NextMenu ==
    \/ \E src \in CatalogFiles : LoadCatalog(src)
    \/ GetCategories

SpecMenu == Init /\ [][NextMenu]_vars

\* ---------------------------------------------------------- main() running

\* main() starts on a new Restaurant with whatever orders.json holds.
InitMain ==
    /\ menu = << >>
    /\ orders = EmptyDict
    /\ available_tables = {1, 2, 3, 4, 5}
    /\ file \in ForeignSources
    /\ signal = "none"
    /\ call = NoCall
    /\ undo = NoUndo
    /\ dropped = 0
    /\ cancelled = {}
    /\ categories = << >>
    /\ main = Main("start", 0, FALSE)
    /\ nops = 0

\* The part every step of main() shares; a checkpoint is a step after which
\* the orders are to be on file.
Step(pc, op, input, arg, out, table_number, checkpoint) ==
    /\ main.pc = pc
    /\ nops < MaxOps
    /\ orders' = out.orders
    /\ available_tables' = out.available_tables
    /\ file' = out.file
    /\ signal' = out.signal
    /\ call' = Call(op, input.value, IF input.parses THEN arg ELSE "abc", Missing)
    /\ main' = Main(out.pc, table_number, main.checkpointed \/ checkpoint)
    /\ nops' = nops + 1
    /\ UNCHANGED <<undo, dropped, cancelled, categories>>

NoInput == [parses |-> TRUE, value |-> 0]

\* load_menu("menu.json") and load_orders("orders.json") before the loop.
MainStart(src) ==
    /\ LET out == load_orders(orders, available_tables, file)
       IN  Step("start", "start", NoInput, "", 
                MainOutcome(out.orders, out.available_tables, file, out.signal,
                            IF out.signal = "KeyError" THEN "aborted" ELSE "prompt"),
                0, FALSE)
    /\ menu' = load_menu(menu, src)

\* Command 1 up to the wizard's loop.
WizardBegin(input, n) ==
    /\ Step("prompt", "1", input, n,
            wizard_begin(orders, available_tables, file, input, n),
            input.value, FALSE)
    /\ UNCHANGED menu

\* One round of the wizard's loop; the round that ends it is a checkpoint.
WizardRound(choice, dish) ==
    /\ LET out == wizard_round(menu, orders, available_tables, file,
                               main.table_number, choice, dish)
       IN  Step("wizard", "wizard", NoInput, "", out, main.table_number,
                show_category_menu(menu, choice) = << >>)
    /\ UNCHANGED menu

\* Commands 2 and 5 and a choice that is no command: something is printed.
ShowCommand(choice) ==
    /\ Step("prompt", choice, NoInput, "",
            MainOutcome(orders, available_tables, file, "shown", "prompt"), 0, FALSE)
    /\ UNCHANGED menu

ShowOrderCommand(input) ==
    /\ Step("prompt", "3", input, "",
            show_order_command(orders, available_tables, file, input), 0, FALSE)
    /\ UNCHANGED menu

\* Command 4 is a checkpoint when it returns to the prompt.
CancelCommand(input) ==
    /\ Step("prompt", "4", input, "",
            cancel_command(orders, available_tables, file, input), 0, input.parses)
    /\ UNCHANGED menu

ExitCommand ==
    /\ Step("prompt", "6", NoInput, "", exit_command(orders, available_tables, file), 0, TRUE)
    /\ UNCHANGED menu

NextMain ==
    \/ \E src \in MenuSources : MainStart(src)
    \/ \E input \in TableInputs, n \in CustomerNames : WizardBegin(input, n)
    \/ \E choice \in 0..(Len(get_categories(menu)) + 1), dish \in 0..Len(menu) :
          WizardRound(choice, dish)
    \/ \E choice \in {"2", "5", "other"} : ShowCommand(choice)
    \/ \E input \in TableInputs : ShowOrderCommand(input)
    \/ \E input \in TableInputs : CancelCommand(input)
    \/ ExitCommand

SpecMain == InitMain /\ [][NextMain]_vars

\* ------------------------------------------------------------- properties

\* C1: the keys of the orders and the available tables are disjoint and together
\* are exactly the tables 1..5, in every state the public calls reach.
C1_TablePartition ==
    /\ Keys(orders) \cap available_tables = {}
    /\ Keys(orders) \cup available_tables = Universe

\* C2: create_order on a table that has an order reports a failure and leaves
\* the orders, the available tables, the menu and the file as they were.
C2_CreateOnOccupiedChangesNothing ==
    [][(call'.op = "create_order" /\ Has(orders, call'.table))
        => /\ signal' \in {"no such table", "table occupied"}
           /\ orders' = orders
           /\ available_tables' = available_tables
           /\ menu' = menu
           /\ file' = file]_vars

\* A create_order for another customer has just failed on an occupied table.
C2_Witness ==
    /\ call.op = "create_order"
    /\ signal # "created"
    /\ Has(orders, call.table)
    /\ Get(orders, call.table).customer_name # call.arg
    /\ Get(orders, call.table).items # << >>

\* C3: create_order with a table number outside 1..5 reports "no such table"
\* and inserts nothing, in every reachable state.
C3_CreateOutsideUniverseFails ==
    [][(call'.op = "create_order" /\ call'.table \notin Universe)
        => /\ signal' = "no such table"
           /\ orders' = orders]_vars

\* C4: create_order on a table that has an order reports "table occupied".
C4_OccupiedSignal ==
    [][(call'.op = "create_order" /\ Has(orders, call'.table))
        => signal' = "table occupied"]_vars

\* C5: after create_order on an available table of 1..5 and cancel_order on it
\* as the next call, the orders and the available tables are those before the
\* create_order.
C5_CreateThenCancelRestores ==
    (undo.stage = "cancelled" /\ undo.table \in Universe)
        => /\ orders = undo.orders
           /\ available_tables = undo.available_tables
           /\ undo.table \in available_tables
           /\ ~Has(orders, undo.table)

\* A table was created and cancelled at once while another table had an order.
C5_Witness ==
    /\ undo.stage = "cancelled"
    /\ undo.table \in Universe
    /\ call.op = "cancel_order"
    /\ signal = "cancelled"
    /\ orders # EmptyDict

\* The book a new Restaurant holds after load_orders of what save_orders writes
\* for the current orders.
Reloaded == load_orders(EmptyDict, {1, 2, 3, 4, 5}, save_orders(orders))

\* C6: save_orders and then load_orders into a new Restaurant gives the same
\* tables, customer names and item sequences and the same available tables, for
\* every reachable book.
C6_RoundTrip ==
    /\ Reloaded.signal = "loaded"
    /\ AsMap(Reloaded.orders) = AsMap(orders)
    /\ Reloaded.available_tables = available_tables

\* A source load_orders reads to its end: a JSON array whose objects have
\* every key.
WellFormed(src) ==
    /\ src.kind = "json"
    /\ \A k \in DOMAIN src.data : HasOrderKeys(src.data[k])

\* The table numbers of the objects load_orders stores from a source: those
\* before the first object with a key missing.
StoredUpTo(src) ==
    IF src.kind # "json"
    THEN 0
    ELSE LET bad == {k \in DOMAIN src.data : ~HasOrderKeys(src.data[k])}
         IN  IF bad = {}
             THEN Len(src.data)
             ELSE (CHOOSE k \in bad : \A j \in bad : k <= j) - 1

SourceTables(src) == {src.data[k].table_number : k \in 1..StoredUpTo(src)}

\* The last object a well-formed source records for a table.
LastRecord(src, t) ==
    LET at == {k \in DOMAIN src.data : src.data[k].table_number = t}
    IN  src.data[CHOOSE k \in at : \A j \in at : k >= j]

\* C7, as stated: after load_orders of a well-formed source (here one that
\* names tables of 1..5 only) the orders are exactly those the source records,
\* and none of their tables is available.
C7_RestoreReplaces ==
    [][(call'.op = "load_orders" /\ WellFormed(call'.src)
            /\ SourceTables(call'.src) \subseteq Universe)
        => /\ Keys(orders') = SourceTables(call'.src)
           /\ \A t \in SourceTables(call'.src) :
                 Get(orders', t) = order_from(LastRecord(call'.src, t))
           /\ SourceTables(call'.src) \cap available_tables' = {}]_vars

\* C7, amended: load_orders of a well-formed source adds the orders the source
\* records to the orders held before, replacing only those of the tables the
\* source names (its last object for a table wins), and removes exactly the
\* tables the source names from the available tables.
C7_RestoreMerges ==
    [][(call'.op = "load_orders" /\ WellFormed(call'.src))
        => /\ signal' = "loaded"
           /\ Keys(orders') = Keys(orders) \cup SourceTables(call'.src)
           /\ \A t \in SourceTables(call'.src) :
                 Get(orders', t) = order_from(LastRecord(call'.src, t))
           /\ \A t \in Keys(orders) \ SourceTables(call'.src) :
                 Get(orders', t) = Get(orders, t)
           /\ available_tables' = available_tables \ SourceTables(call'.src)]_vars

\* A well-formed source that names one table twice was loaded, and an order of
\* a table it does not name is still there.
C7_Witness ==
    /\ call.op = "load_orders"
    /\ WellFormed(call.src)
    /\ SourceTables(call.src) # {}
    /\ Keys(orders) \ SourceTables(call.src) # {}
    /\ Len(call.src.data) > Cardinality(SourceTables(call.src))

\* C8: load_orders of a missing source, or of one that is not a JSON array of
\* complete order objects, raises nothing and leaves the orders and the
\* available tables as they were.
C8_BadSourceChangesNothing ==
    [][(call'.op = "load_orders" /\ ~WellFormed(call'.src))
        => /\ signal' \in {"file not found", "read error"}
           /\ orders' = orders
           /\ available_tables' = available_tables]_vars

\* C9, as stated: a table of 1..5 changes between available and occupied only
\* by a successful create_order (available to occupied) or by cancel_order
\* (occupied to available), and no table leaves the orders and the available
\* tables.
C9_OnlyCreateAndCancel ==
    [][\A t \in Universe :
         /\ ((Has(orders, t) # Has(orders', t))
                \/ ((t \in available_tables) # (t \in available_tables')))
            => \/ /\ call'.op = "create_order" /\ call'.table = t /\ signal' = "created"
                  /\ t \in available_tables /\ ~Has(orders, t)
                  /\ t \notin available_tables' /\ Has(orders', t)
               \/ /\ call'.op = "cancel_order" /\ call'.table = t
                  /\ t \notin available_tables /\ Has(orders, t)
                  /\ t \in available_tables' /\ ~Has(orders', t)
         /\ (Has(orders, t) \/ t \in available_tables)
            => (Has(orders', t) \/ t \in available_tables')]_vars

\* C9, amended: a table becomes occupied (a key of the orders, not available)
\* only by a successful create_order on it while available or by a load_orders
\* whose source records it; it becomes available only by cancel_order on it
\* while occupied; no other call changes either collection's membership, and
\* no table leaves the orders and the available tables.
C9_CreateLoadAndCancel ==
    [][\A t \in Universe \cup TableArgs :
         /\ ((Has(orders, t) # Has(orders', t))
                \/ ((t \in available_tables) # (t \in available_tables')))
            => \/ /\ call'.op = "create_order" /\ call'.table = t /\ signal' = "created"
                  /\ t \in available_tables /\ ~Has(orders, t)
                  /\ t \notin available_tables' /\ Has(orders', t)
               \/ /\ call'.op = "load_orders" /\ t \in SourceTables(call'.src)
                  /\ ~Has(orders, t)
                  /\ t \notin available_tables' /\ Has(orders', t)
               \/ /\ call'.op = "cancel_order" /\ call'.table = t
                  /\ t \notin available_tables /\ Has(orders, t)
                  /\ t \in available_tables' /\ ~Has(orders', t)
         /\ (Has(orders, t) \/ t \in available_tables)
            => (Has(orders', t) \/ t \in available_tables')]_vars

\* The first call on a new book was a load_orders that made a table of 1..5
\* occupied.
C9_Witness ==
    /\ nops = 1
    /\ call.op = "load_orders"
    /\ \E t \in Universe : Has(orders, t) /\ t \notin available_tables

\* The first item of the menu with a name, as << item >>, or << >>.
FirstNamed(name) ==
    LET hits == {k \in DOMAIN menu : menu[k].name = name}
    IN  IF hits = {} THEN << >>
        ELSE <<menu[CHOOSE k \in hits : \A j \in hits : j >= k]>>

\* C10: add_to_order changes nothing when the table has no order or the name is
\* on no menu item; otherwise it appends the first menu item of that name to
\* the end of the table's order and changes nothing else.
C10_AddToOrderFrame ==
    [][(call'.op = "add_to_order")
        => LET t == call'.table
               found == FirstNamed(call'.arg)
           IN  /\ menu' = menu
               /\ available_tables' = available_tables
               /\ file' = file
               /\ IF ~Has(orders, t) \/ found = << >>
                  THEN orders' = orders
                  ELSE /\ Keys(orders') = Keys(orders)
                       /\ Get(orders', t).items = Append(Get(orders, t).items, found[1])
                       /\ Get(orders', t).customer_name = Get(orders, t).customer_name
                       /\ Get(orders', t).table_number = Get(orders, t).table_number
                       /\ \A u \in Keys(orders) \ {t} : Get(orders', u) = Get(orders, u)]_vars

\* "Tea", which two menu items are named, was added after another line to the
\* order of one of two occupied tables.
C10_Witness ==
    /\ call.op = "add_to_order"
    /\ call.arg = "Tea"
    /\ signal = "added"
    /\ Cardinality(Keys(orders)) >= 2
    /\ Get(orders, call.table).items = <<Soup, Tea>>

\* The lines of a sequence whose name is not the given one, in their order:
\* the j-th of them is the line at the j-th smallest position that is kept.
KeptLines(items, name) ==
    LET kept == {k \in DOMAIN items : items[k].name # name}
    IN  [j \in 1..Cardinality(kept) |->
            items[CHOOSE k \in kept : Cardinality({i \in kept : i <= k}) = j]]

\* C11: remove_from_order changes nothing when the table has no order;
\* otherwise the table's order loses every line of that name, keeps the other
\* lines in their order, and stays in the orders even when no line is left;
\* nothing else changes.
C11_RemoveFromOrderAll ==
    [][(call'.op = "remove_from_order")
        => LET t == call'.table
           IN  /\ menu' = menu
               /\ available_tables' = available_tables
               /\ file' = file
               /\ IF ~Has(orders, t)
                  THEN orders' = orders
                  ELSE /\ Keys(orders') = Keys(orders)
                       /\ \A k \in DOMAIN Get(orders', t).items :
                             Get(orders', t).items[k].name # call'.arg
                       /\ Get(orders', t).items = KeptLines(Get(orders, t).items, call'.arg)
                       /\ Get(orders', t).customer_name = Get(orders, t).customer_name
                       /\ Get(orders', t).table_number = Get(orders, t).table_number
                       /\ \A u \in Keys(orders) \ {t} : Get(orders', u) = Get(orders, u)]_vars

\* A remove_from_order took two lines out of an order and left one.
C11_Witness ==
    /\ call.op = "remove_from_order"
    /\ signal = "removed"
    /\ dropped = 2
    /\ Len(Get(orders, call.table).items) = 1

\* C12: cancel_order changes nothing when the table has no order (the table is
\* not added to the available tables); otherwise the table's order is deleted,
\* the table is added to the available tables, and the other tables' orders
\* and availability are as before.
C12_CancelOrderFrame ==
    [][(call'.op = "cancel_order")
        => LET t == call'.table
           IN  /\ menu' = menu
               /\ file' = file
               /\ IF ~Has(orders, t)
                  THEN /\ orders' = orders
                       /\ available_tables' = available_tables
                       /\ signal' = "no such order"
                  ELSE /\ Keys(orders') = Keys(orders) \ {t}
                       /\ available_tables' = available_tables \cup {t}
                       /\ \A u \in Keys(orders') : Get(orders', u) = Get(orders, u)]_vars

\* A cancel_order found no order on a table that is not available either, and
\* another table has an order.
C12_Witness ==
    /\ call.op = "cancel_order"
    /\ signal = "no such order"
    /\ call.table \notin available_tables
    /\ orders # EmptyDict

\* The prices of a set of dishes, each times the number of lines of a sequence
\* that are that dish.
RECURSIVE PriceTimesLines(_, _)
PriceTimesLines(dishes, items) ==
    IF dishes = {}
    THEN 0
    ELSE LET dish == CHOOSE d \in dishes : TRUE
         IN  dish.price * Cardinality({k \in DOMAIN items : items[k] = dish})
                + PriceTimesLines(dishes \ {dish}, items)

\* C15: the total of every order is the sum of the prices of its lines, a dish
\* on several lines counted once per line, and 0 for an order without lines,
\* whatever add_to_order and remove_from_order calls came before.
C15_TotalIsSumOfLines ==
    \A t \in Keys(orders) :
        LET items == Get(orders, t).items
        IN  /\ total_price(Get(orders, t))
                 = PriceTimesLines({items[k] : k \in DOMAIN items}, items)
            /\ (items = << >>) => (total_price(Get(orders, t)) = 0)

\* After a line was removed, an order holds the same dish on two lines.
C15_Witness ==
    /\ call.op = "remove_from_order"
    /\ dropped = 1
    /\ Get(orders, call.table).items = <<Tea, Tea>>
    /\ total_price(Get(orders, call.table)) = 4

\* C17: no table is a key of the orders and an available table at once, in
\* every reachable state, so create_order never reports "table occupied".
C17_NeverBothAndBranchDead ==
    /\ \A t \in Keys(orders) : t \notin available_tables
    /\ signal # "table occupied"

\* create_order was refused on a table whose order came from a loaded file
\* (no menu was loaded, so its line cannot have been added by a call).
C17_Witness ==
    /\ call.op = "create_order"
    /\ signal = "no such table"
    /\ menu = << >>
    /\ Has(orders, call.table)
    /\ Get(orders, call.table).items # << >>

\* C18: every Order is stored under its own table number, so every object
\* save_orders writes carries the key its order is held under.
C18_OrderKeyedByItsTable ==
    /\ \A k \in DOMAIN orders : orders[k].value.table_number = orders[k].key
    /\ \A k \in DOMAIN orders : save_orders(orders).data[k].table_number = orders[k].key

\* The file was just written, as the third call, for a book that holds a
\* loaded order (its line is on no loaded menu) and a created one.
C18_Witness ==
    /\ call.op = "save_orders"
    /\ nops = 3
    /\ file = save_orders(orders)
    /\ menu = << >>
    /\ \E t, u \in Keys(orders) :
          /\ Get(orders, t).items # << >>
          /\ Get(orders, u).items = << >>
          /\ Get(orders, u).customer_name = "Alice"

\* C19: the order a successful create_order stores has the customer name of
\* that call and no lines; so after cancel_order on the table nothing of the
\* cancelled order is in the new one.
C19_CreatedOrderIsFresh ==
    [][(call'.op = "create_order" /\ signal' = "created")
        => /\ Has(orders', call'.table)
           /\ Get(orders', call'.table).customer_name = call'.arg
           /\ Get(orders', call'.table).items = << >>]_vars

\* create_order succeeded for a new customer on a table whose earlier order,
\* with lines, had been cancelled.
C19_Witness ==
    /\ call.op = "create_order"
    /\ signal = "created"
    /\ \E c \in cancelled : c[1] = call.table /\ c[2] # call.arg
    /\ Cardinality(Keys(orders)) >= 2

\* The position of the first item of a category in the menu.
FirstOf(category) ==
    CHOOSE k \in DOMAIN menu :
        /\ menu[k].category = category
        /\ \A j \in 1..(k - 1) : menu[j].category # category

\* C16: get_categories returns every category of the menu's items exactly
\* once, in the order of their first items.
C16_CategoriesFirstAppearance ==
    (signal = "categories")
        => /\ {categories[k] : k \in DOMAIN categories}
                 = {menu[k].category : k \in DOMAIN menu}
           /\ \A i, j \in DOMAIN categories :
                 (i # j) => (categories[i] # categories[j])
           /\ \A i, j \in DOMAIN categories :
                 (i < j) => (FirstOf(categories[i]) < FirstOf(categories[j]))

\* get_categories was called on a menu whose items are in the categories
\* Soup, Main, Soup, Dessert.
C16_Witness ==
    /\ signal = "categories"
    /\ [k \in DOMAIN menu |-> menu[k].category] = <<"Soup", "Main", "Soup", "Dessert">>
    /\ categories = <<"Soup", "Main", "Dessert">>

\* C13: in main(), a table number that does not parse as an integer, typed in
\* command 1, 3 or 4, is answered with a message, changes neither the book nor
\* the file, and main() is back at its prompt.
C13_UnparsedTableRejected ==
    [][(call'.op \in {"1", "3", "4"} /\ call'.arg = "abc")
        => /\ main'.pc = "prompt"
           /\ signal' = "not a number"
           /\ orders' = orders
           /\ available_tables' = available_tables
           /\ file' = file]_vars

\* C14: at the prompt after a wizard that created an order has ended, after a
\* cancel command or after any earlier such checkpoint, and after the exit
\* command, the file holds exactly the records of the current orders.
C14_FileCurrentAtCheckpoints ==
    ((main.pc = "prompt" /\ main.checkpointed) \/ main.pc = "exited")
        => file = save_orders(orders)

\* main() is back at the prompt after a cancel command that cancelled an
\* order, and an order with a line added in a wizard is left.
C14_Witness ==
    /\ main.pc = "prompt"
    /\ main.checkpointed
    /\ call.op = "4"
    /\ signal = "cancelled"
    /\ \E t \in Keys(orders) : Get(orders, t).items = <<Tea>>

====
